---- MODULE Spec2Model ----
(***************************************************************************)
(* Model of the AnimeUnity stream provider of StreamViX:                   *)
(*   - src/src/providers/animeunity-provider.ts   (current revision, "ts") *)
(*   - src/src/providers/animeunity-provider.tsBK (backup revision, "bk")  *)
(*   - src/unnamed/part_000  (addon stream handler)                        *)
(*   - src/unnamed/part_001  (formatMediaFlowUrl / extractFilename)        *)
(*   - src/unnamed/part_002  (types)                                       *)
(*                                                                         *)
(* Display names and titles are sequences of one-character strings.  URLs  *)
(* are sequences of lexical tokens (an origin, "/", "?", "&", "filename=", *)
(* a plain file name, a percent escape), so that the regular expression,   *)
(* the URL parser and percent-encoding can be computed token by token.     *)
(***************************************************************************)
EXTENDS Integers, Sequences, FiniteSets, TLC

(***************************************************************************)
(* Bounds of the model.                                                    *)
(***************************************************************************)
MaxId == 3            \* upstream Version ids are 1..MaxId
MaxResults == 2       \* longest list of Versions one request aggregates
MaxUrlLen == 4        \* longest raw URL, in tokens, given to formatMediaFlowUrl

(***************************************************************************)
(* Strings as sequences of characters.                                     *)
(***************************************************************************)
\* String.prototype.toLowerCase, on the characters the model uses
LowerChar(c) ==
  CASE c = "N" -> "n"
    [] c = "I" -> "i"
    [] c = "T" -> "t"
    [] c = "A" -> "a"
    [] OTHER -> c

ToLowerCase(s) == [i \in 1..Len(s) |-> LowerChar(s[i])]

\* String.prototype.toUpperCase on one character
UpperChar(c) ==
  CASE c = "n" -> "N"
    [] c = "i" -> "I"
    [] c = "t" -> "T"
    [] c = "a" -> "A"
    [] OTHER -> c

RECURSIVE TrimStart(_)
TrimStart(s) ==
  IF s # <<>> /\ Head(s) = " " THEN TrimStart(Tail(s)) ELSE s

RECURSIVE TrimEnd(_)
TrimEnd(s) ==
  IF s # <<>> /\ s[Len(s)] = " " THEN TrimEnd(SubSeq(s, 1, Len(s) - 1)) ELSE s

\* String.prototype.trim
Trim(s) == TrimEnd(TrimStart(s))

\* String.prototype.includes
Includes(s, sub) ==
  \E i \in 1..(Len(s) - Len(sub) + 1) : SubSeq(s, i, i + Len(sub) - 1) = sub

ItaMarker == <<"i", "t", "a">>
ItaSuffix == <<" ", "(", "i", "t", "a", ")">>

(***************************************************************************)
(* Versions returned by the scraper's search verb.                         *)
(***************************************************************************)
NameSub      == <<"n", " ">>
NameIta      == <<"N", " ", "(", "I", "T", "A", ")">>
NameOtherIta == <<"n", "2", " ", "(", "I", "T", "A", ")">>
NameOther    == <<"n", "2">>

VersionNames == <<NameSub, NameIta, NameOtherIta, NameOther>>

\* AnimeUnitySearchResult: the upstream record of one id (its name is fixed)
SearchResult(i) ==
  [id |-> i, name |-> VersionNames[((i - 1) % Len(VersionNames)) + 1]]

AllSearchResults == {SearchResult(i) : i \in 1..MaxId}

SeqsUpTo(S, n) == UNION {[1..k -> S] : k \in 0..n}

\* the title the metadata lookup yields for the requested anime
AnimeTitle == <<"N">>

RECURSIVE SelectSeq2(_, _, _)
\* Array.prototype.filter with the predicate of filterMainVersions
SelectSeq2(results, base, ita) ==
  IF results = <<>> THEN <<>>
  ELSE LET r == Head(results)
           name == ToLowerCase(Trim(r.name))
           rest == SelectSeq2(Tail(results), base, ita)
       IN IF name = base \/ name = ita THEN <<r>> \o rest ELSE rest

\* the language tag both revisions derive from a display name
MarkerTag(name) ==
  IF Includes(ToLowerCase(name), ItaMarker) THEN "ITA" ELSE "SUB"

\* filterMainVersions(results, baseTitle)
filterMainVersions(results, baseTitle) ==
  LET normalizedBase == ToLowerCase(Trim(baseTitle))
      itaTitle == normalizedBase \o ItaSuffix
      filtered == SelectSeq2(results, normalizedBase, itaTitle)
      firstTwo == SubSeq(results, 1, IF Len(results) < 2 THEN Len(results) ELSE 2)
  IN IF Len(filtered) > 0
     THEN [i \in 1..Len(filtered) |->
             [version |-> filtered[i], language_type |-> MarkerTag(filtered[i].name)]]
     ELSE [i \in 1..Len(firstTwo) |->
             [version |-> firstTwo[i],
              language_type |-> IF i = 2 THEN "ITA" ELSE "SUB"]]

\* searchAllVersions(title) of the backup revision, after both searches settle
searchAllVersions(subResults, dubResults) ==
  LET allResults == subResults \o dubResults
  IN [i \in 1..Len(allResults) |->
        [version |-> allResults[i], language_type |-> MarkerTag(allResults[i].name)]]

(***************************************************************************)
(* URLs and the MediaFlow rewrite (src/unnamed/part_001).                  *)
(***************************************************************************)
Origin == "http://x"
UrlTokens == {Origin, "/", "?", "&", "filename=", "video.mp4", "%20", "%zz"}

\* encodeURIComponent, token by token
EncodeToken(t) ==
  CASE t = Origin -> "http%3A%2F%2Fx"
    [] t = "/" -> "%2F"
    [] t = "?" -> "%3F"
    [] t = "&" -> "%26"
    [] t = "filename=" -> "filename%3D"
    [] t = "%20" -> "%2520"
    [] t = "%zz" -> "%25zz"
    [] OTHER -> t

encodeURIComponent(s) == [i \in 1..Len(s) |-> EncodeToken(s[i])]

\* decodeURIComponent: a URIError on a malformed escape
DecodeToken(t) == IF t = "%20" THEN " " ELSE t

decodeURIComponent(s) ==
  IF \E i \in 1..Len(s) : s[i] = "%zz"
  THEN [ok |-> FALSE, val |-> <<>>]
  ELSE [ok |-> TRUE, val |-> [i \in 1..Len(s) |-> DecodeToken(s[i])]]

\* positions where /filename=([^&]+)/ can match
FilenameMatches(url) ==
  {i \in 1..(Len(url) - 1) : url[i] = "filename=" /\ url[i + 1] # "&"}

Min(S) == CHOOSE x \in S : \A y \in S : x <= y
Max(S) == CHOOSE x \in S : \A y \in S : x >= y

\* the capture group of the leftmost match: up to the next "&" or the end
FilenameCapture(url) ==
  LET i == Min(FilenameMatches(url))
      stops == {j \in (i + 1)..Len(url) : url[j] = "&"}
      last == IF stops = {} THEN Len(url) ELSE Min(stops) - 1
  IN SubSeq(url, i + 1, last)

\* new URL(url): only a string that starts with a scheme and host parses
UrlParses(url) == url # <<>> /\ url[1] = Origin

\* new URL(url).pathname, without the leading "/"
Pathname(url) ==
  LET qs == {j \in 2..Len(url) : url[j] = "?"}
      last == IF qs = {} THEN Len(url) ELSE Min(qs) - 1
      path == SubSeq(url, 2, last)
  IN IF path = <<>> THEN <<>> ELSE Tail(path)

\* urlPath.split('/').pop()
LastSegment(path) ==
  LET slashes == {j \in 1..Len(path) : path[j] = "/"}
  IN IF slashes = {} THEN path ELSE SubSeq(path, Max(slashes) + 1, Len(path))

DefaultFilename == <<"video.mp4">>

\* extractFilename(url): ok = FALSE stands for a thrown TypeError / URIError
extractFilename(url) ==
  IF FilenameMatches(url) # {}
  THEN decodeURIComponent(FilenameCapture(url))
  ELSE IF ~UrlParses(url)
       THEN [ok |-> FALSE, val |-> <<>>]
       ELSE LET seg == LastSegment(Pathname(url))
            IN [ok |-> TRUE, val |-> IF seg = <<>> THEN DefaultFilename ELSE seg]

\* formatMediaFlowUrl(mp4Url, mfpUrl, mfpPassword)
formatMediaFlowUrl(mp4Url, mfpUrl, mfpPassword) ==
  LET encodedUrl == encodeURIComponent(mp4Url)
      filename == extractFilename(mp4Url)
  IN IF ~filename.ok
     THEN [ok |-> FALSE, val |-> <<>>]
     ELSE [ok |-> TRUE,
           val |-> mfpUrl \o <<"/proxy/stream/">> \o filename.val \o <<"?d=">>
                   \o encodedUrl \o <<"&api_password=">> \o mfpPassword]

(***************************************************************************)
(* Stream titles (animeunity-provider.ts, lines 186-196 and 219-223).      *)
(***************************************************************************)
ItaParen == <<"(", "i", "t", "a", ")">>

\* version.name.replace(/\s*\(ITA\)/i, ''): the leftmost match is removed
RemoveItaParen(name) ==
  LET hits == {j \in 1..(Len(name) - 4) : ToLowerCase(SubSeq(name, j, j + 4)) = ItaParen}
  IN IF hits = {} THEN name
     ELSE LET j == Min(hits)
              blank == {i \in 1..j : \A k \in i..(j - 1) : name[k] = " "}
              i == Min(blank)
          IN SubSeq(name, 1, i - 1) \o SubSeq(name, j + 5, Len(name))

\* capitalize(str)
capitalize(str) ==
  IF str = <<>> THEN str ELSE <<UpperChar(Head(str))>> \o Tail(str)

DigitChars == <<"0", "1", "2", "3", "4", "5", "6", "7", "8", "9">>

\* the decimal digits a template literal prints for a small number
Digits(n) ==
  IF n < 10 THEN <<DigitChars[n + 1]>>
  ELSE <<DigitChars[(n \div 10) + 1], DigitChars[(n % 10) + 1]>>

\* isDub of the episode loop: the backup revision compares with 'DUB'
IsDub(revision, language_type) ==
  IF revision = "ts" THEN language_type = "ITA" ELSE language_type = "DUB"

\* streamTitle of the episode loop; a season or episode of 0 stands for null
EpisodeTitle(revision, name, language_type, seasonNumber, episodeNumber) ==
  LET cleanName == Trim(RemoveItaParen(name))
      sNum == IF seasonNumber # 0 THEN seasonNumber ELSE 1
      head == capitalize(cleanName)
              \o (IF IsDub(revision, language_type)
                  THEN <<" ", "I", "T", "A", " ", "S">>
                  ELSE <<" ", "S", "U", "B", " ", "S">>)
              \o Digits(sNum)
  IN IF episodeNumber # 0 THEN head \o <<"E">> \o Digits(episodeNumber) ELSE head

\* title of a movie descriptor
MovieTitle(language_type) ==
  <<"AnimeUnity", " ">>
  \o (IF language_type = "ITA" THEN <<"I", "T", "A">> ELSE <<"S", "U", "B">>)
  \o <<" ", "(Movie)">>

(***************************************************************************)
(* Catalog ids, episodes and scraper results.                              *)
(***************************************************************************)
\* raw ids "kitsu:<id>[:<season>]:<episode>", split at ':' after the prefix
RawIds ==
  { [ns |-> "kitsu", parts |-> <<>>],          \* "kitsu:"        malformed
    [ns |-> "kitsu", parts |-> <<7>>],         \* "kitsu:7"       movie
    [ns |-> "kitsu", parts |-> <<7, 1>>],      \* "kitsu:7:1"     episode 1
    [ns |-> "kitsu", parts |-> <<7, 2, 2>>] }  \* "kitsu:7:2:2"   season 2 episode 2

\* KitsuProvider.parseKitsuId: ok = FALSE stands for the thrown parse error
parseKitsuId(raw) ==
  CASE Len(raw.parts) = 1 ->
         [ok |-> TRUE, kitsuId |-> raw.parts[1], seasonNumber |-> 0,
          episodeNumber |-> 0, isMovie |-> TRUE]
    [] Len(raw.parts) = 2 ->
         [ok |-> TRUE, kitsuId |-> raw.parts[1], seasonNumber |-> 0,
          episodeNumber |-> raw.parts[2], isMovie |-> FALSE]
    [] Len(raw.parts) = 3 ->
         [ok |-> TRUE, kitsuId |-> raw.parts[1], seasonNumber |-> raw.parts[2],
          episodeNumber |-> raw.parts[3], isMovie |-> FALSE]
    [] OTHER ->
         [ok |-> FALSE, kitsuId |-> 0, seasonNumber |-> 0,
          episodeNumber |-> 0, isMovie |-> FALSE]

NotParsed ==
  [ok |-> FALSE, kitsuId |-> 0, seasonNumber |-> 0, episodeNumber |-> 0,
   isMovie |-> FALSE]

\* KitsuProvider.normalizeTitle: an opaque mapping to the upstream query
normalizeTitle(title) == title

\* an episode number as the scraper's JSON carries it: a string or a number
StrNum(n) == [type |-> "string", val |-> n]
NumNum(n) == [type |-> "number", val |-> n]

\* String(x)
String(x) == [type |-> "string", val |-> x.val]

Episode(i, num) == [id |-> i, number |-> num]

EpisodeLists ==
  { <<Episode(10, StrNum(1))>>,
    <<Episode(20, StrNum(2)), Episode(21, StrNum(1))>>,
    <<Episode(30, NumNum(1))>>,
    <<Episode(40, StrNum(3))>> }

\* results of get_episodes: a JSON array, or another JSON value (null)
EpisodesValues ==
  {[isArray |-> TRUE, items |-> l] : l \in EpisodeLists}
  \cup {[isArray |-> FALSE, items |-> <<>>]}

NoEpisodes == [isArray |-> FALSE, items |-> <<>>]

Undefined == [def |-> FALSE, s |-> <<>>]
Str(s) == [def |-> TRUE, s |-> s]

GoodUrl == <<Origin, "/", "video.mp4">>
RelativeUrl == <<"video.mp4">>
EmbedUrl == <<Origin, "/", "embed">>

\* results of get_stream: a JSON object, or another JSON value (null)
StreamValues ==
  { [isObject |-> TRUE, mp4_url |-> Str(GoodUrl), embed_url |-> Str(EmbedUrl)],
    [isObject |-> TRUE, mp4_url |-> Str(GoodUrl), embed_url |-> Undefined],
    [isObject |-> TRUE, mp4_url |-> Str(RelativeUrl), embed_url |-> Undefined],
    [isObject |-> TRUE, mp4_url |-> Undefined, embed_url |-> Str(EmbedUrl)],
    [isObject |-> TRUE, mp4_url |-> Str(<<>>), embed_url |-> Str(EmbedUrl)],
    [isObject |-> FALSE, mp4_url |-> Undefined, embed_url |-> Undefined] }

NoStream == [isObject |-> FALSE, mp4_url |-> Undefined, embed_url |-> Undefined]

\* truthiness of a string-valued field: undefined and '' are falsy
Truthy(field) == field.def /\ field.s # <<>>

\* a || b on string-valued settings
OrElse(a, b) == IF a # <<>> THEN a ELSE b

ProxyUrl == <<"http://proxy">>
ProxyPassword == <<"pw123">>

(***************************************************************************)
(* Episode resolution.                                                     *)
(***************************************************************************)
RECURSIVE FindFirst(_, _, _)
\* Array.prototype.find: the first item the predicate accepts, as <<item>>
FindFirst(items, wanted, strict) ==
  IF items = <<>> THEN <<>>
  ELSE IF (IF strict THEN Head(items).number = wanted
                     ELSE String(Head(items).number) = String(wanted))
       THEN <<Head(items)>>
       ELSE FindFirst(Tail(items), wanted, strict)

\* a find that falls back to the first episode of the list
FindEpisode_firstAsFallback(items, episodeNumber) ==
  IF FindFirst(items, NumNum(episodeNumber), FALSE) # <<>>
  THEN FindFirst(items, NumNum(episodeNumber), FALSE)
  ELSE SubSeq(items, 1, IF items = <<>> THEN 0 ELSE 1)

\* episodes.find(ep => String(ep.number) === String(episodeNumber))
FindEpisode(items, episodeNumber) ==
  FindFirst(items, NumNum(episodeNumber), FALSE)

\* episodes.find(ep => ep.number === "1")
FindMovieEpisode(items) == FindFirst(items, StrNum(1), TRUE)

\* a test that only checks the field is defined
HasMp4Url_definedOnly(streamResult) == streamResult.mp4_url.def

\* if (streamResult.mp4_url)
HasMp4Url(streamResult) == Truthy(streamResult.mp4_url)

(***************************************************************************)
(* Results of handleKitsuRequest.                                          *)
(***************************************************************************)
Pending == [kind |-> "pending", streams |-> <<>>]
Return(s) == [kind |-> "return", streams |-> s]
Thrown == [kind |-> "throw", streams |-> <<>>]

\* an outer handler that rethrows
CatchOuter_rethrow == Thrown

\* catch (error) { console.error(...); return { streams: [] }; }
CatchOuter == Return(<<>>)

\* a lookup miss that raises
LookupMiss_raise == Thrown

\* if (!animeInfo) return { streams: [] };
LookupMiss == Return(<<>>)

(***************************************************************************)
(* State.                                                                  *)
(***************************************************************************)
VARIABLES
  rev,             \* the revision of the provider that is running: "ts" or "bk"
  pc,              \* position of the request
  config,          \* AnimeUnityConfig handed to the provider
  parsed,          \* result of parseKitsuId
  animeInfo,       \* result of the metadata lookup
  normalizedTitle, \* query of the search
  animeVersions,   \* the (version, language_type) pairs of the loop
  cur,             \* index in animeVersions of the Version being processed
  episodes,        \* episodes of the current Version
  targetEpisode,   \* <<episode>> when one was found, <<>> otherwise
  streamResult,    \* result of get_stream for the current Version
  streams,         \* the streams array being accumulated
  origin,          \* for each element of streams, the index of its Version
  calls,           \* invocations of the scraper made so far
  errors,          \* console.error lines of the provider's catch blocks
  ret,             \* how handleKitsuRequest settled
  response,        \* what the stream handler answered
  searchSettled,   \* how the search calls of the request settled
  fmtIn,           \* arguments of a direct call of formatMediaFlowUrl
  fmtOut,          \* its outcome
  spawned,         \* one invokePythonScraper call: "running", "failed", "none"
  stdout,          \* its accumulated stdout
  stderr,          \* its accumulated stderr
  closed,          \* the 'close' event it has handled, with its exit code
  errored,         \* whether it has handled the 'error' event
  promise          \* the promise it returned

scraperVars == <<spawned, stdout, stderr, closed, errored, promise>>

vars ==
  <<rev, pc, config, parsed, animeInfo, normalizedTitle, animeVersions, cur,
    episodes,
    targetEpisode, streamResult, streams, origin, calls, errors, ret, response,
    searchSettled, fmtIn, fmtOut, scraperVars>>

reqVars ==
  <<rev, pc, config, parsed, animeInfo, normalizedTitle, animeVersions, cur,
    episodes,
    targetEpisode, streamResult, streams, origin, calls, errors, ret, response,
    searchSettled>>

NoConfig ==
  [enabled |-> FALSE, mfpUrl |-> <<>>, mfpPassword |-> <<>>, bothLink |-> FALSE]

NoAnimeInfo == [settled |-> FALSE, found |-> FALSE, title |-> <<>>]

NoFmtIn == [mp4Url |-> <<>>, mfpUrl |-> <<>>, mfpPassword |-> <<>>]
NoFmtOut == [done |-> FALSE, ok |-> FALSE, val |-> <<>>]

Call(verb, idx) == [verb |-> verb, idx |-> idx]

RequestIdle ==
  /\ pc = "idle"
  /\ config = NoConfig
  /\ parsed = NotParsed
  /\ animeInfo = NoAnimeInfo
  /\ normalizedTitle = <<>>
  /\ animeVersions = <<>>
  /\ cur = 0
  /\ episodes = NoEpisodes
  /\ targetEpisode = <<>>
  /\ streamResult = NoStream
  /\ streams = <<>>
  /\ origin = <<>>
  /\ calls = {}
  /\ errors = <<>>
  /\ ret = Pending
  /\ response = Pending
  /\ searchSettled = <<>>

\* a JSON value: a number or an array
JsonNumber(n) == [kind |-> "number", num |-> n, arr |-> <<>>]
JsonArray(a) == [kind |-> "array", num |-> 0, arr |-> a]

\* the promise of invokePythonScraper
PromisePending == [state |-> "pending", value |-> JsonNumber(0), why |-> "", text |-> <<>>]
Resolved(v) == [state |-> "resolved", value |-> v, why |-> "", text |-> <<>>]
Rejected(why, text) ==
  [state |-> "rejected", value |-> JsonNumber(0), why |-> why, text |-> text]

NotClosed == [done |-> FALSE, code |-> 0]

\* no invokePythonScraper call is being followed
ScraperIdle ==
  /\ spawned = "none"
  /\ stdout = <<>>
  /\ stderr = <<>>
  /\ closed = NotClosed
  /\ errored = FALSE
  /\ promise = PromisePending

Init ==
  /\ rev \in {"ts", "bk"}
  /\ RequestIdle
  /\ fmtIn = NoFmtIn
  /\ fmtOut = NoFmtOut
  /\ ScraperIdle

(***************************************************************************)
(* The stream handler (part_000, lines 145-234) up to the first await of   *)
(* handleKitsuRequest.  Only Kitsu ids are requested: other ids take the   *)
(* VixSrc path, which never reaches this provider.                         *)
(***************************************************************************)
StreamHandler ==
  /\ pc = "idle"
  /\ \E id \in RawIds, animeUnityEnabled \in BOOLEAN,
        cfgUrl \in {<<>>, ProxyUrl}, envUrl \in {<<>>, ProxyUrl},
        cfgPsw \in {<<>>, ProxyPassword}, envPsw \in {<<>>, ProxyPassword},
        bothLinkValue \in BOOLEAN :
       LET animeUnityConfig ==
             [enabled |-> TRUE,
              mfpUrl |-> OrElse(cfgUrl, OrElse(envUrl, <<>>)),
              mfpPassword |-> OrElse(cfgPsw, OrElse(envPsw, <<>>)),
              bothLink |-> bothLinkValue]
           p == parseKitsuId(id)
       IN IF ~animeUnityEnabled
          THEN /\ response' = Return(<<>>)
               /\ pc' = "responded"
               /\ UNCHANGED <<config, parsed, ret, errors>>
          ELSE /\ config' = animeUnityConfig
               /\ response' = response
               /\ IF ~animeUnityConfig.enabled
                  THEN /\ ret' = Return(<<>>)
                       /\ pc' = "returned"
                       /\ UNCHANGED <<parsed, errors>>
                  ELSE IF ~p.ok
                       THEN /\ ret' = CatchOuter
                            /\ pc' = "returned"
                            /\ errors' = Append(errors, Call("request", 0))
                            /\ parsed' = parsed
                       ELSE /\ parsed' = p
                            /\ pc' = "getAnimeInfo"
                            /\ UNCHANGED <<ret, errors>>
  /\ UNCHANGED <<rev, animeInfo, normalizedTitle, animeVersions, cur, episodes,
                 targetEpisode,
                 streamResult, streams, origin, calls, fmtIn, fmtOut,
                 searchSettled, scraperVars>>

(***************************************************************************)
(* await getAnimeInfo(kitsuId): a title, absent, or a rejection.           *)
(***************************************************************************)
AnimeInfos ==
  { [settled |-> TRUE, found |-> TRUE, title |-> AnimeTitle],
    [settled |-> TRUE, found |-> FALSE, title |-> <<>>] }

SearchCalls == IF rev = "ts" THEN {Call("search", 0)}
               ELSE {Call("search", 0), Call("search_dubbed", 0)}

GetAnimeInfo ==
  /\ pc = "getAnimeInfo"
  /\ \E rejected \in BOOLEAN, info \in AnimeInfos :
       IF rejected
       THEN /\ ret' = CatchOuter
            /\ pc' = "returned"
            /\ errors' = Append(errors, Call("request", 0))
            /\ UNCHANGED <<animeInfo, normalizedTitle, calls>>
       ELSE /\ animeInfo' = info
            /\ IF ~info.found
               THEN /\ ret' = LookupMiss
                    /\ pc' = "returned"
                    /\ UNCHANGED <<normalizedTitle, calls, errors>>
               ELSE /\ normalizedTitle' = normalizeTitle(info.title)
                    /\ calls' = calls \cup SearchCalls
                    /\ pc' = "search"
                    /\ UNCHANGED <<ret, errors>>
  /\ UNCHANGED <<rev, config, parsed, animeVersions, cur, episodes, targetEpisode,
                 streamResult, streams, origin, response, fmtIn, fmtOut, searchSettled,
                 scraperVars>>

(***************************************************************************)
(* The search settles: one search in "ts", two joined searches in "bk".    *)
(***************************************************************************)
\* outcome of one invokePythonScraper(['search', ...])
SearchOutcomes ==
  {[kind |-> "reject", list |-> <<>>], [kind |-> "null", list |-> <<>>]}
  \cup {[kind |-> "list", list |-> l] : l \in SeqsUpTo(AllSearchResults, MaxResults)}

\* a search whose rejection is not caught
CatchToEmpty_none(o) == o

\* .catch(() => []) of the backup revision
CatchToEmpty(o) == IF o.kind = "reject" THEN [kind |-> "list", list |-> <<>>] ELSE o

\* after the Versions are known: empty answer, or the first get_episodes
StartLoop(versions) ==
  /\ animeVersions' = versions
  /\ IF Len(versions) = 0
     THEN /\ ret' = Return(<<>>)
          /\ pc' = "returned"
          /\ UNCHANGED <<cur, calls, errors>>
     ELSE /\ cur' = 1
          /\ calls' = calls \cup {Call("get_episodes", 1)}
          /\ pc' = "get_episodes"
          /\ UNCHANGED <<ret, errors>>

SearchFailed ==
  /\ ret' = CatchOuter
  /\ pc' = "returned"
  /\ errors' = Append(errors, Call("request", 0))
  /\ UNCHANGED <<animeVersions, cur, calls>>

SearchTs ==
  /\ pc = "search"
  /\ rev = "ts"
  /\ \E o \in SearchOutcomes :
       /\ searchSettled' = <<o>>
       /\ IF o.kind # "list"
          THEN SearchFailed
          ELSE StartLoop(filterMainVersions(o.list, normalizedTitle))
  /\ UNCHANGED <<rev, config, parsed, animeInfo, normalizedTitle, episodes, targetEpisode,
                 streamResult, streams, origin, response, fmtIn, fmtOut, scraperVars>>

SearchBk ==
  /\ pc = "search"
  /\ rev = "bk"
  /\ \E sub \in SearchOutcomes, dub \in SearchOutcomes :
       /\ Len(sub.list) + Len(dub.list) <= MaxResults
       /\ searchSettled' = <<sub, dub>>
       /\ LET subResults == CatchToEmpty(sub)
              dubResults == CatchToEmpty(dub)
          IN IF subResults.kind # "list" \/ dubResults.kind # "list"
             THEN SearchFailed
             ELSE StartLoop(searchAllVersions(subResults.list, dubResults.list))
  /\ UNCHANGED <<rev, config, parsed, animeInfo, normalizedTitle, episodes, targetEpisode,
                 streamResult, streams, origin, response, fmtIn, fmtOut, scraperVars>>

(***************************************************************************)
(* The per-Version loop (animeunity-provider.ts, lines 134-211).           *)
(***************************************************************************)
\* the loop body of Version cur is over: next Version, or return { streams }
Advance(newStreams, newOrigin, newErrors) ==
  /\ streams' = newStreams
  /\ origin' = newOrigin
  /\ errors' = newErrors
  /\ episodes' = NoEpisodes
  /\ targetEpisode' = <<>>
  /\ streamResult' = NoStream
  /\ IF cur < Len(animeVersions)
     THEN /\ cur' = cur + 1
          /\ calls' = calls \cup {Call("get_episodes", cur + 1)}
          /\ pc' = "get_episodes"
          /\ ret' = ret
     ELSE /\ pc' = "returned"
          /\ ret' = Return(newStreams)
          /\ UNCHANGED <<cur, calls>>

\* an exception in the loop body of Version cur: the movie loop has no
\* try/catch of its own, the episode loop logs and continues
VersionThrew ==
  IF parsed.isMovie
  THEN /\ ret' = CatchOuter
       /\ pc' = "returned"
       /\ errors' = Append(errors, Call("request", 0))
       /\ UNCHANGED <<cur, calls, streams, origin, episodes, targetEpisode,
                      streamResult>>
  ELSE Advance(streams, origin, Append(errors, Call("version", cur)))

\* await invokePythonScraper(['get_episodes', ...]) settles
GetEpisodes ==
  /\ pc = "get_episodes"
  /\ \E rejected \in BOOLEAN, value \in EpisodesValues :
       IF rejected
       THEN VersionThrew
       ELSE /\ episodes' = value
            /\ pc' = "resolve"
            /\ UNCHANGED <<cur, calls, streams, origin, errors, targetEpisode,
                           streamResult, ret>>
  /\ UNCHANGED <<rev, config, parsed, animeInfo, normalizedTitle, animeVersions, response,
                 fmtIn, fmtOut, searchSettled, scraperVars>>

\* episodes.find(...), then skip the Version or ask for its stream
Resolve ==
  /\ pc = "resolve"
  /\ IF ~episodes.isArray
     THEN VersionThrew
     ELSE LET found == IF parsed.isMovie
                       THEN FindMovieEpisode(episodes.items)
                       ELSE FindEpisode(episodes.items, parsed.episodeNumber)
          IN IF found = <<>>
             THEN Advance(streams, origin, errors)
             ELSE /\ targetEpisode' = found
                  /\ calls' = calls \cup {Call("get_stream", cur)}
                  /\ pc' = "get_stream"
                  /\ UNCHANGED <<cur, streams, origin, errors, episodes,
                                 streamResult, ret>>
  /\ UNCHANGED <<rev, config, parsed, animeInfo, normalizedTitle, animeVersions, response,
                 fmtIn, fmtOut, searchSettled, scraperVars>>

\* await invokePythonScraper(['get_stream', ...]) settles
GetStream ==
  /\ pc = "get_stream"
  /\ \E rejected \in BOOLEAN, value \in StreamValues :
       IF rejected
       THEN VersionThrew
       ELSE /\ streamResult' = value
            /\ pc' = "finalize"
            /\ UNCHANGED <<cur, calls, streams, origin, errors, episodes,
                           targetEpisode, ret>>
  /\ UNCHANGED <<rev, config, parsed, animeInfo, normalizedTitle, animeVersions, response,
                 fmtIn, fmtOut, searchSettled, scraperVars>>

Descriptor(title, url) == [title |-> title, url |-> url, notWebReady |-> TRUE]

\* the url of the movie descriptor
MovieUrl(mp4Url, mfpUrl, mfpPassword) == [ok |-> TRUE, val |-> mp4Url]

\* the url of the episode descriptor
EpisodeUrl(mp4Url, mfpUrl, mfpPassword) ==
  formatMediaFlowUrl(mp4Url, mfpUrl, mfpPassword)

\* the descriptors one Version adds, given its stream result
Emitted(url) ==
  LET pair == animeVersions[cur]
      streamTitle == EpisodeTitle(rev, pair.version.name, pair.language_type,
                                  parsed.seasonNumber, parsed.episodeNumber)
  IN IF parsed.isMovie
     THEN <<Descriptor(MovieTitle(pair.language_type), url)>>
     ELSE <<Descriptor(streamTitle, url)>>
          \o (IF rev = "bk" /\ config.bothLink /\ Truthy(streamResult.embed_url)
              THEN <<Descriptor(<<"[E]", " ">> \o streamTitle, streamResult.embed_url.s)>>
              ELSE <<>>)

\* if (streamResult.mp4_url) { ... streams.push(...) }
Finalize ==
  /\ pc = "finalize"
  /\ IF ~streamResult.isObject
     THEN VersionThrew
     ELSE IF ~HasMp4Url(streamResult)
          THEN Advance(streams, origin, errors)
          ELSE LET url == IF parsed.isMovie
                          THEN MovieUrl(streamResult.mp4_url.s, config.mfpUrl,
                                        config.mfpPassword)
                          ELSE EpisodeUrl(streamResult.mp4_url.s, config.mfpUrl,
                                          config.mfpPassword)
               IN IF ~url.ok
                  THEN VersionThrew
                  ELSE LET new == Emitted(url.val)
                       IN Advance(streams \o new,
                                  origin \o [i \in 1..Len(new) |-> cur],
                                  errors)
  /\ UNCHANGED <<rev, config, parsed, animeInfo, normalizedTitle, animeVersions, response,
                 fmtIn, fmtOut, searchSettled, scraperVars>>

\* back in the stream handler: allStreams.push(...result.streams), or the catch
HandlerRespond ==
  /\ pc = "returned"
  /\ response' = IF ret.kind = "return" THEN Return(ret.streams) ELSE Return(<<>>)
  /\ pc' = "responded"
  /\ UNCHANGED <<rev, config, parsed, animeInfo, normalizedTitle, animeVersions, cur, episodes,
                 targetEpisode, streamResult, streams, origin, calls, errors, ret,
                 fmtIn, fmtOut, searchSettled, scraperVars>>

Next ==
  \/ StreamHandler
  \/ GetAnimeInfo
  \/ SearchTs
  \/ SearchBk
  \/ GetEpisodes
  \/ Resolve
  \/ GetStream
  \/ Finalize
  \/ HandlerRespond

Spec == Init /\ [][Next]_vars

(***************************************************************************)
(* formatMediaFlowUrl on its own: every raw URL of at most MaxUrlLen       *)
(* tokens.  An origin is only written at the start of a URL, and what      *)
(* follows it is a path or a query.                                        *)
(***************************************************************************)
RawUrls ==
  {u \in SeqsUpTo(UrlTokens, MaxUrlLen) :
     /\ \A i \in 2..Len(u) : u[i] # Origin
     /\ (Len(u) >= 2 /\ u[1] = Origin) => u[2] \in {"/", "?"}}

FmtInit ==
  /\ rev = "ts"
  /\ RequestIdle
  /\ fmtIn \in [mp4Url : RawUrls, mfpUrl : {<<>>, ProxyUrl},
                mfpPassword : {ProxyPassword}]
  /\ fmtOut = NoFmtOut
  /\ ScraperIdle

FmtCall ==
  /\ ~fmtOut.done
  /\ LET r == formatMediaFlowUrl(fmtIn.mp4Url, fmtIn.mfpUrl, fmtIn.mfpPassword)
     IN fmtOut' = [done |-> TRUE, ok |-> r.ok, val |-> r.val]
  /\ UNCHANGED <<fmtIn, reqVars, scraperVars>>

FmtNext == FmtCall

FmtSpec == FmtInit /\ [][FmtNext]_vars

(***************************************************************************)
(* invokePythonScraper on its own (animeunity-provider.ts, lines 13-53):   *)
(* the events of one child process, delivered in any order Node allows.    *)
(* The text of stdout is a sequence of tokens "[", "]" and the digit "1".  *)
(***************************************************************************)
MaxChunks == 3        \* most 'data' events of stdout in one run
MaxErrChunks == 1     \* most 'data' events of stderr in one run

JsonTokens == {"[", "]", "1"}

RECURSIVE DecimalValue(_)
\* the number a run of digits denotes
DecimalValue(s) ==
  IF s = <<>> THEN 0 ELSE 10 * DecimalValue(SubSeq(s, 1, Len(s) - 1)) + 1

IsDigits(s) == s # <<>> /\ \A i \in 1..Len(s) : s[i] = "1"

RECURSIVE JsonParse(_)
\* JSON.parse(text): ok = FALSE stands for the thrown SyntaxError
JsonParse(text) ==
  IF IsDigits(text)
  THEN [ok |-> TRUE, val |-> JsonNumber(DecimalValue(text))]
  ELSE IF Len(text) >= 2 /\ text[1] = "[" /\ text[Len(text)] = "]"
       THEN IF Len(text) = 2
            THEN [ok |-> TRUE, val |-> JsonArray(<<>>)]
            ELSE LET inner == JsonParse(SubSeq(text, 2, Len(text) - 1))
                 IN IF inner.ok
                    THEN [ok |-> TRUE, val |-> JsonArray(<<inner.val>>)]
                    ELSE [ok |-> FALSE, val |-> JsonNumber(0)]
       ELSE [ok |-> FALSE, val |-> JsonNumber(0)]

\* exit codes of a process that ran: 0, 1, and -1 for null (killed by a signal)
ExitCodes == {0, 1, -1}

\* the code 'close' carries when the process could not be started
SpawnErrorCode == -2

\* resolve / reject of a promise: only the first settlement takes effect
Settle(p, outcome) == IF p.state = "pending" THEN outcome ELSE p

\* a 'close' handler that looks at stdout before the exit code
CloseOutcome_parseFirst(code, out, err) ==
  IF JsonParse(out).ok THEN Resolved(JsonParse(out).val)
  ELSE IF code # 0 THEN Rejected("exit", err)
  ELSE Rejected("parse", <<>>)

\* the body of the 'close' handler
CloseOutcome(code, out, err) ==
  IF code # 0 THEN Rejected("exit", err)
  ELSE IF JsonParse(out).ok THEN Resolved(JsonParse(out).val)
  ELSE Rejected("parse", <<>>)

\* spawn() returned and the four handlers are registered
ScraperInit ==
  /\ rev = "ts"
  /\ RequestIdle
  /\ fmtIn = NoFmtIn
  /\ fmtOut = NoFmtOut
  /\ spawned \in {"running", "failed"}
  /\ stdout = <<>>
  /\ stderr = <<>>
  /\ closed = NotClosed
  /\ errored = FALSE
  /\ promise = PromisePending

\* pythonProcess.stdout.on('data', ...)
StdoutData ==
  /\ spawned = "running"
  /\ ~closed.done
  /\ Len(stdout) < MaxChunks
  /\ \E data \in JsonTokens : stdout' = stdout \o <<data>>
  /\ UNCHANGED <<stderr, closed, errored, promise, spawned, fmtIn, fmtOut, reqVars>>

\* pythonProcess.stderr.on('data', ...)
StderrData ==
  /\ spawned = "running"
  /\ ~closed.done
  /\ Len(stderr) < MaxErrChunks
  /\ stderr' = stderr \o <<"Traceback">>
  /\ UNCHANGED <<stdout, closed, errored, promise, spawned, fmtIn, fmtOut, reqVars>>

\* pythonProcess.on('close', ...): after the streams of the process ended
OnClose ==
  /\ spawned \in {"running", "failed"}
  /\ ~closed.done
  /\ \E code \in (IF spawned = "running" THEN ExitCodes ELSE {SpawnErrorCode}) :
       /\ closed' = [done |-> TRUE, code |-> code]
       /\ promise' = Settle(promise, CloseOutcome(code, stdout, stderr))
  /\ UNCHANGED <<stdout, stderr, errored, spawned, fmtIn, fmtOut, reqVars>>

\* pythonProcess.on('error', ...): the process could not be started
OnError ==
  /\ spawned = "failed"
  /\ ~errored
  /\ errored' = TRUE
  /\ promise' = Settle(promise, Rejected("spawn", <<>>))
  /\ UNCHANGED <<stdout, stderr, closed, spawned, fmtIn, fmtOut, reqVars>>

ScraperNext ==
  \/ StdoutData
  \/ StderrData
  \/ OnClose
  \/ OnError

ScraperSpec == ScraperInit /\ [][ScraperNext]_vars

(***************************************************************************)
(* Properties.                                                             *)
(***************************************************************************)
Range(f) == {f[i] : i \in DOMAIN f}

\* C1: for every raw id and every outcome of the external calls,
\* handleKitsuRequest settles by returning a streams list: it never throws to
\* its caller, and the handler answers with the list that was returned.
C1_AlwaysReturnsList ==
  /\ ret.kind # "throw"
  /\ (pc = "returned" => ret.kind = "return")
  /\ (pc = "responded" /\ config.enabled => response = Return(ret.streams))

\* C1 witness: an external failure reached the outer catch and a list came back
C1_Witness ==
  /\ pc = "responded"
  /\ Call("request", 0) \in Range(errors)
  /\ Call("get_episodes", 1) \in calls
  /\ ret = Return(<<>>)

\* C2: a failure of get_episodes or get_stream for one Version costs only that
\* Version: every Version of the aggregated sequence is still processed and the
\* descriptors accumulated so far are in the returned list, for episode and
\* for movie requests.
C2_VersionFailureIsolated ==
  (pc = "returned" /\ Len(animeVersions) > 0) =>
     /\ \A i \in 1..Len(animeVersions) : Call("get_episodes", i) \in calls
     /\ ret.streams = streams

\* C3: the sequence handed to the per-version loop holds each Version id once.
C3_VersionIdsUnique ==
  \A i, j \in 1..Len(animeVersions) :
     i # j => animeVersions[i].version.id # animeVersions[j].version.id

\* the display name carries the marker "ita", compared case-insensitively
HasItaMarker(name) ==
  \E i \in 1..(Len(name) - 2) :
     /\ name[i] \in {"i", "I"}
     /\ name[i + 1] \in {"t", "T"}
     /\ name[i + 2] \in {"a", "A"}

\* C4: every aggregated Version whose display name contains "ita" (in any
\* case) is tagged ITA and every other Version is tagged SUB, on every path.
C4_TagFollowsMarker ==
  \A i \in 1..Len(animeVersions) :
     animeVersions[i].language_type =
        (IF HasItaMarker(animeVersions[i].version.name) THEN "ITA" ELSE "SUB")

\* the number the request asks for: "1" for a movie
RequestedNumber == IF parsed.isMovie THEN 1 ELSE parsed.episodeNumber

\* some episode of the list carries the requested number
ListHasRequested ==
  \E k \in 1..Len(episodes.items) : episodes.items[k].number.val = RequestedNumber

\* C5: when the episode list of a Version has no episode with the requested
\* number, no get_stream call is made for it, it adds no descriptor, and the
\* loop goes on with the next Version (or returns what was accumulated); a
\* descriptor only ever comes from a Version that was asked for its stream.
C5_NoMatchSkipsVersion ==
  [][ /\ (\A k \in 1..Len(origin') : Call("get_stream", origin'[k]) \in calls')
      /\ (pc = "resolve" /\ episodes.isArray /\ ~ListHasRequested) =>
            /\ Call("get_stream", cur) \notin calls'
            /\ streams' = streams
            /\ errors' = errors
            /\ IF cur < Len(animeVersions)
               THEN /\ cur' = cur + 1
                    /\ pc' = "get_episodes"
                    /\ Call("get_episodes", cur + 1) \in calls'
               ELSE ret' = Return(streams) ]_vars

\* C5 witness: a Version was skipped without a stream call or an error, and
\* the descriptor of another Version was returned
C5_Witness ==
  /\ pc = "returned"
  /\ errors = <<>>
  /\ ret.streams # <<>>
  /\ ret.streams = streams
  /\ \E i \in 1..Len(animeVersions) :
        /\ Call("get_episodes", i) \in calls
        /\ Call("get_stream", i) \notin calls

\* C6: when the metadata lookup returns absent, the request returns an empty
\* list, raises nothing, and no search, get_episodes or get_stream is issued.
C6_LookupMissIsEmpty ==
  (animeInfo.settled /\ ~animeInfo.found) =>
     /\ ret = Return(<<>>)
     /\ calls = {}
     /\ errors = <<>>
     /\ (pc = "responded" => response = Return(<<>>))

\* C6 witness: the lookup came back absent and the handler answered
C6_Witness ==
  /\ animeInfo.settled
  /\ ~animeInfo.found
  /\ pc = "responded"

\* the field is present and not the empty string
PresentNonEmpty(field) == field.def /\ Len(field.s) > 0

\* C7: a descriptor is only added from a get_stream result whose mp4_url is
\* present and non-empty; with mp4_url absent or empty the Version adds nothing
\* (no embed descriptor either) and nothing is logged or thrown; the returned
\* list holds no descriptor that was not accumulated.
C7_OnlyFromNonEmptyUrl ==
  [][ /\ (streams' # streams =>
            /\ pc = "finalize"
            /\ streamResult.isObject
            /\ PresentNonEmpty(streamResult.mp4_url))
      /\ (pc = "finalize" /\ streamResult.isObject
            /\ ~PresentNonEmpty(streamResult.mp4_url)) =>
            /\ streams' = streams
            /\ errors' = errors
            /\ ret'.kind # "throw"
      /\ (ret'.kind = "return" => ret'.streams \in {streams', <<>>}) ]_vars

\* C7 witness: a Version was asked for its stream, added nothing and logged
\* nothing, while another Version's descriptor was returned
C7_Witness ==
  /\ pc = "returned"
  /\ errors = <<>>
  /\ ret.streams # <<>>
  /\ \E i \in 1..Len(animeVersions) :
        /\ Call("get_stream", i) \in calls
        /\ i \notin Range(origin)

\* the url is the proxied form for the configured proxy
IsProxied(url) ==
  /\ Len(url) > Len(config.mfpUrl)
  /\ SubSeq(url, 1, Len(config.mfpUrl) + 1) = config.mfpUrl \o <<"/proxy/stream/">>

IsEmbedDescriptor(d) == Len(d.title) > 0 /\ d.title[1] = "[E]"

\* C8: with mfpUrl and mfpPassword both non-empty, the url of every primary
\* descriptor is the proxied rewrite of mp4_url, for movies and for episodes.
C8_ProxiedWhenConfigured ==
  (config.mfpUrl # <<>> /\ config.mfpPassword # <<>>) =>
     \A k \in 1..Len(streams) :
        ~IsEmbedDescriptor(streams[k]) => IsProxied(streams[k].url)

\* C9: with mfpUrl empty, the url of every descriptor that is emitted is the
\* raw mp4_url get_stream returned, unchanged.
C9_RawWhenNoProxy ==
  [][ (pc = "finalize" /\ config.mfpUrl = <<>> /\ Len(streams') > Len(streams)) =>
         streams'[Len(streams) + 1].url = streamResult.mp4_url.s ]_vars

\* the part of a raw URL before its query
BeforeQuery(url) ==
  LET qs == {j \in 1..Len(url) : url[j] = "?"}
  IN IF qs = {} THEN url ELSE SubSeq(url, 1, Min(qs) - 1)

\* the positions of the filename= query parameters that carry a value
FilenameParams(url) ==
  {i \in 2..(Len(url) - 1) :
     /\ url[i] = "filename="
     /\ url[i - 1] \in {"?", "&"}
     /\ \E q \in 1..(i - 1) : url[q] = "?"
     /\ url[i + 1] # "&"}

ParamValue(url, i) ==
  LET stops == {j \in (i + 1)..Len(url) : url[j] = "&"}
  IN SubSeq(url, i + 1, IF stops = {} THEN Len(url) ELSE Min(stops) - 1)

\* the file name the rewrite formula prescribes
PrescribedFilename(url) ==
  IF FilenameParams(url) # {}
  THEN LET v == ParamValue(url, Min(FilenameParams(url)))
       IN [i \in 1..Len(v) |-> DecodeToken(v[i])]
  ELSE LET seg == LastSegment(BeforeQuery(url))
       IN IF seg = <<>> \/ seg = <<Origin>> THEN DefaultFilename ELSE seg

\* C10: for every rawUrl formatMediaFlowUrl yields proxyBase + "/proxy/stream/"
\* + filename + "?d=" + percent-encoded rawUrl + "&api_password=" + credential,
\* the filename being the filename= query parameter, else the last path
\* segment, else "video.mp4".
C10_FormatIsTotal ==
  fmtOut.done =>
     /\ fmtOut.ok
     /\ fmtOut.val = fmtIn.mfpUrl \o <<"/proxy/stream/">>
                     \o PrescribedFilename(fmtIn.mp4Url) \o <<"?d=">>
                     \o encodeURIComponent(fmtIn.mp4Url)
                     \o <<"&api_password=">> \o fmtIn.mfpPassword

\* the first episode of the list whose number, as a string, is n
FirstNumbered(items, n) ==
  LET hits == {k \in 1..Len(items) : items[k].number.val = n}
  IN IF hits = {} THEN <<>> ELSE <<items[Min(hits)]>>

\* C11: for a movie id the Resolver selects, in each Version, the first episode
\* whose number normalized to a string is "1", whether the list carries the
\* number as the string "1" or as the numeric 1, and asks for its stream.
C11_MovieMatchesNormalizedOne ==
  [][ (pc = "resolve" /\ parsed.isMovie /\ episodes.isArray
         /\ FirstNumbered(episodes.items, 1) # <<>>) =>
         /\ pc' = "get_stream"
         /\ targetEpisode' = FirstNumbered(episodes.items, 1)
         /\ Call("get_stream", cur) \in calls' ]_vars

\* what a settled search contributes: its list, nothing when it failed
Contribution(o) == IF o.kind = "list" THEN o.list ELSE <<>>

RECURSIVE Contributions(_)
Contributions(outcomes) ==
  IF outcomes = <<>> THEN <<>>
  ELSE Contribution(Head(outcomes)) \o Contributions(Tail(outcomes))

\* C12: a failed search is not fatal to the aggregation: it contributes
\* nothing, the Versions of a search that succeeded beside it are aggregated
\* and their processing begins, and when every search failed the aggregated
\* sequence is empty and the request returns an empty list.
C12_FailedSearchIsEmptySet ==
  LET kinds == {searchSettled[i].kind : i \in 1..Len(searchSettled)}
  IN ("reject" \in kinds /\ "null" \notin kinds) =>
        /\ ret.kind # "throw"
        /\ [i \in 1..Len(animeVersions) |-> animeVersions[i].version]
              = Contributions(searchSettled)
        /\ Contributions(searchSettled) # <<>> => Call("get_episodes", 1) \in calls
        /\ kinds = {"reject"} =>
              /\ animeVersions = <<>>
              /\ ret = Return(<<>>)
              /\ \A c \in calls : c.verb \notin {"get_episodes", "get_stream"}
              /\ (pc = "responded" => response = Return(<<>>))

\* C12 witness: one variant search failed, the other one's Version was
\* processed and its descriptor returned
C12_Witness ==
  /\ Len(searchSettled) = 2
  /\ searchSettled[1].kind = "reject"
  /\ searchSettled[2].kind = "list"
  /\ pc = "returned"
  /\ ret.streams # <<>>

\* a number written with two digits, zero-padded
TwoDigits(n) == <<DigitChars[(n \div 10) + 1], DigitChars[(n % 10) + 1]>>

\* the season/episode marker the title of an episode descriptor must end with
PaddedMarker ==
  <<"S">> \o TwoDigits(IF parsed.seasonNumber # 0 THEN parsed.seasonNumber ELSE 1)
  \o <<"E">> \o TwoDigits(parsed.episodeNumber)

EndsWith(s, suffix) ==
  /\ Len(s) >= Len(suffix)
  /\ SubSeq(s, Len(s) - Len(suffix) + 1, Len(s)) = suffix

\* C13: the title of every episode descriptor carries the season and the
\* episode number, each zero-padded to two digits (S01E05); the title of every
\* movie descriptor carries the movie marker and no season/episode numbers.
C13_TitleNumbersPadded ==
  \A k \in 1..Len(streams) :
     IF parsed.isMovie
     THEN /\ "(Movie)" \in Range(streams[k].title)
          /\ \A c \in Range(streams[k].title) : c \notin Range(DigitChars)
     ELSE EndsWith(streams[k].title, PaddedMarker)

\* the promise is settled as the events handled so far require
SettledAsRequired ==
  /\ (closed.done \/ errored) => promise.state # "pending"
  /\ promise.state = "resolved" =>
        /\ closed.done
        /\ closed.code = 0
        /\ JsonParse(stdout).ok
        /\ promise.value = JsonParse(stdout).val
  /\ (closed.done /\ closed.code # 0) => promise.state = "rejected"
  /\ (closed.done /\ ~JsonParse(stdout).ok) => promise.state = "rejected"
  /\ errored => promise.state = "rejected"
  /\ (~closed.done /\ ~errored) => promise.state = "pending"

\* C14: in every interleaving of stdout data, stderr data, error and close,
\* invokePythonScraper settles exactly once: a settled promise never changes;
\* it is resolved, with the parsed value, only after a close with exit code 0
\* and a parseable stdout; a non-zero exit code (valid JSON on stdout or
\* not), an unparseable stdout or a failed start reject it.
C14_SettlesOnceAsRequired ==
  [][ /\ (promise.state # "pending" => promise' = promise)
      /\ SettledAsRequired' ]_vars

\* C14 witness: a process that wrote valid JSON and exited with a non-zero
\* code was rejected
C14_Witness ==
  /\ closed.done
  /\ closed.code # 0
  /\ JsonParse(stdout).ok
  /\ stderr # <<>>
  /\ promise.state = "rejected"

====
